---- MODULE Spec2Model ----
(***************************************************************************)
(* Model of merkle_tree_visualizer.py: hash_pair, build_merkle_tree,       *)
(* print_merkle_tree and main.                                             *)
(*                                                                         *)
(* Strings are sequences of one-character strings.  SHA-256 is modelled as *)
(* an ideal (collision-free) hash: the digest of s is s enclosed in the    *)
(* two characters "{" and "}", which occur in no input.  Concatenation of  *)
(* strings is sequence concatenation, so hash_pair really hashes a + b.    *)
(* Fixed texts printed by main are one-element lines holding the text.     *)
(***************************************************************************)
EXTENDS Integers, Sequences, FiniteSets, TLC

VARIABLES pc, exc, data, items, leaves, tree, layer, current_layer, i,
          depth, out, prevLeaves, prevTree

vars == <<pc, exc, data, items, leaves, tree, layer, current_layer, i,
          depth, out, prevLeaves, prevTree>>

mainVars == <<data, items, depth, out, exc>>
buildVars == <<tree, layer, current_layer, i>>
prevVars == <<prevLeaves, prevTree>>

\* ---------------------------------------------------------------- bounds
MaxLine == 7
MaxLeaves == 5

Chars == {"a", ",", " "}
Lines == UNION {[1..n -> Chars] : n \in 0..MaxLine}

\* ------------------------------------------------------- string helpers
Last(s) == s[Len(s)]

Min(a, b) == IF a <= b THEN a ELSE b

RECURSIVE lstrip(_)
lstrip(s) == IF s # <<>> /\ s[1] = " " THEN lstrip(Tail(s)) ELSE s

RECURSIVE rstrip(_)
rstrip(s) ==
    IF s # <<>> /\ Last(s) = " " THEN rstrip(SubSeq(s, 1, Len(s) - 1)) ELSE s

\* str.strip()
strip(s) == rstrip(lstrip(s))

\* str.split(","): always at least one piece
RECURSIVE split(_)
split(s) ==
    IF \E k \in 1..Len(s) : s[k] = ","
    THEN LET k == CHOOSE k \in 1..Len(s) :
                     s[k] = "," /\ \A j \in 1..(k - 1) : s[j] # ","
         IN  <<SubSeq(s, 1, k - 1)>> \o split(SubSeq(s, k + 1, Len(s)))
    ELSE <<s>>

\* hashlib.sha256(x.encode("utf-8")).hexdigest(), as an ideal hash
sha256(s) == <<"{">> \o s \o <<"}">>

hash_pair_left_twice(a, b) == sha256(a \o a)

hash_pair(a, b) == sha256(a \o b)

\* ------------------------------------------------------------ main, 1/2
Banner == <<"Merkle Tree Visualizer">>
Instructions == <<"Enter comma-separated transaction IDs or strings. Each value will be hashed.">>
InputPrompt == <<"Transactions: ">>
BlankLine == <<>>
NoDataMsg == <<"No data provided. Exiting.">>
TreeHeader == <<"Merkle Tree (root at top, leaves at bottom):">>
RootLabel == <<"Merkle Root:">>

\* print("\nMerkle Root:", x): an empty line, then the label and x
RootLines(x) == <<BlankLine, RootLabel \o <<" ">> \o x>>

Input ==
    /\ pc = "input"
    /\ \E line \in Lines : data' = strip(line)
    /\ out' = <<Banner, Instructions, InputPrompt>>
    /\ pc' = "check"
    /\ UNCHANGED <<exc, items, leaves, depth, buildVars, prevVars>>

CheckEmpty ==
    /\ pc = "check"
    /\ IF data = <<>>
       THEN out' = Append(out, NoDataMsg) /\ pc' = "done"
       ELSE out' = out /\ pc' = "split"
    /\ UNCHANGED <<exc, data, items, leaves, depth, buildVars, prevVars>>

StripItem_none(v) == v

StripItem(v) == strip(v)

RECURSIVE Items(_)
Items(pieces) ==
    IF pieces = <<>> THEN <<>>
    ELSE IF strip(pieces[1]) # <<>>
         THEN <<StripItem(pieces[1])>> \o Items(Tail(pieces))
         ELSE Items(Tail(pieces))

SplitItems ==
    /\ pc = "split"
    /\ items' = Items(split(data))
    /\ pc' = "hash"
    /\ UNCHANGED <<exc, data, leaves, depth, out, buildVars, prevVars>>

HashItems ==
    /\ pc = "hash"
    /\ leaves' = [j \in 1..Len(items) |-> sha256(items[j])]
    /\ pc' = "call_build"
    /\ UNCHANGED <<exc, data, items, depth, out, buildVars, prevVars>>

\* ---------------------------------------------------- build_merkle_tree
InitTree_retained(l) == Append(tree, l)

InitTree(l) == <<l>>

LoopCond_gt2(t) == Len(Last(t)) > 2

LoopCond(t) == Len(Last(t)) > 1

Duplicated_first(cur) == Append(cur, cur[1])

Duplicated(cur) == Append(cur, Last(cur))

\* the tree after current_layer.append(...): current_layer is a copy
StoredTree_aliased(t, cur) == [t EXCEPT ![Len(t)] = cur]

StoredTree(t, cur) == t

Combined_swapped(cur, k) == hash_pair(cur[k + 1], cur[k])

Combined(cur, k) == hash_pair(cur[k], cur[k + 1])

BuildEntry ==
    /\ pc = "call_build"
    /\ tree' = InitTree(leaves)
    /\ pc' = "while"
    /\ UNCHANGED <<layer, current_layer, i, leaves, mainVars, prevVars>>

WhileTest ==
    /\ pc = "while"
    /\ IF LoopCond(tree)
       THEN /\ layer' = <<>>
            /\ current_layer' = Last(tree)
            /\ pc' = "odd"
       ELSE /\ pc' = "returned"
            /\ UNCHANGED <<layer, current_layer>>
    /\ UNCHANGED <<tree, i, leaves, mainVars, prevVars>>

OddDup ==
    /\ pc = "odd"
    /\ IF Len(current_layer) % 2 = 1
       THEN /\ current_layer' = Duplicated(current_layer)
            /\ tree' = StoredTree(tree, current_layer')
       ELSE UNCHANGED <<current_layer, tree>>
    /\ i' = 1
    /\ pc' = "for"
    /\ UNCHANGED <<layer, leaves, mainVars, prevVars>>

ForStep ==
    /\ pc = "for"
    /\ IF i <= Len(current_layer)
       THEN /\ layer' = Append(layer, Combined(current_layer, i))
            /\ i' = i + 2
            /\ pc' = pc
       ELSE /\ pc' = "append"
            /\ UNCHANGED <<layer, i>>
    /\ UNCHANGED <<tree, current_layer, leaves, mainVars, prevVars>>

AppendLayer ==
    /\ pc = "append"
    /\ tree' = Append(tree, layer)
    /\ pc' = "while"
    /\ UNCHANGED <<layer, current_layer, i, leaves, mainVars, prevVars>>

BuildStep == BuildEntry \/ WhileTest \/ OddDup \/ ForStep \/ AppendLayer

\* ------------------------------------------- print_merkle_tree, main 2/2
PrefixLen == 8

IndentUnit == <<" ", " ", " ", " ">>
Separator == <<" ", " ", " ">>

RECURSIVE Indent(_)
Indent(d) == IF d = 0 THEN <<>> ELSE IndentUnit \o Indent(d - 1)

\* h[:8]
Shorten(h) == SubSeq(h, 1, Min(Len(h), PrefixLen))

\* "   ".join(xs)
RECURSIVE Join(_)
Join(xs) ==
    IF xs = <<>> THEN <<>>
    ELSE IF Len(xs) = 1 THEN xs[1]
    ELSE xs[1] \o Separator \o Join(Tail(xs))

Reversed_not(t) == t

\* list(reversed(t))
Reversed(t) == [k \in 1..Len(t) |-> t[Len(t) + 1 - k]]

LayerLine(d, l) == Indent(d) \o Join([k \in 1..Len(l) |-> Shorten(l[k])])

PrintHeader ==
    /\ pc = "returned"
    /\ out' = out \o <<BlankLine, TreeHeader>>
    /\ depth' = 0
    /\ pc' = "print"
    /\ UNCHANGED <<exc, data, items, leaves, buildVars, prevVars>>

PrintLayer ==
    /\ pc = "print"
    /\ IF depth < Len(tree)
       THEN /\ out' = Append(out, LayerLine(depth, Reversed(tree)[depth + 1]))
            /\ depth' = depth + 1
            /\ pc' = pc
       ELSE /\ pc' = "root"
            /\ UNCHANGED <<out, depth>>
    /\ UNCHANGED <<exc, data, items, leaves, buildVars, prevVars>>

\* tree[-1][0] raises IndexError on an empty last layer
PrintRoot ==
    /\ pc = "root"
    /\ IF Last(tree) = <<>>
       THEN /\ exc' = "IndexError"
            /\ pc' = "error"
            /\ out' = out
       ELSE /\ out' = out \o RootLines(Last(tree)[1])
            /\ pc' = "done"
            /\ exc' = exc
    /\ UNCHANGED <<data, items, leaves, depth, buildVars, prevVars>>

MainStep ==
    Input \/ CheckEmpty \/ SplitItems \/ HashItems \/ PrintHeader
        \/ PrintLayer \/ PrintRoot

\* -------------------------------------------------------- specifications
Init ==
    /\ pc = "input"
    /\ exc = "none"
    /\ data = <<>>
    /\ items = <<>>
    /\ leaves = <<>>
    /\ tree = <<>>
    /\ layer = <<>>
    /\ current_layer = <<>>
    /\ i = 0
    /\ depth = 0
    /\ out = <<>>
    /\ prevLeaves = <<>>
    /\ prevTree = <<>>

Next == MainStep \/ BuildStep

\* one run of main
Spec == Init /\ [][Next]_vars

\* build_merkle_tree alone, called again and again on leaf sequences
LeafDigests == {sha256(<<"a">>), sha256(<<"b">>)}
LeafSeqs == UNION {[1..n -> LeafDigests] : n \in 1..MaxLeaves}

InitBuild ==
    /\ pc = "call_build"
    /\ exc = "none"
    /\ data = <<>>
    /\ items = <<>>
    /\ leaves \in LeafSeqs
    /\ tree = <<>>
    /\ layer = <<>>
    /\ current_layer = <<>>
    /\ i = 0
    /\ depth = 0
    /\ out = <<>>
    /\ prevLeaves = <<>>
    /\ prevTree = <<>>

\* the caller keeps the result and calls again
CallAgain ==
    /\ pc = "returned"
    /\ prevLeaves' = leaves
    /\ prevTree' = tree
    /\ leaves' \in LeafSeqs
    /\ pc' = "call_build"
    /\ UNCHANGED <<buildVars, mainVars>>

NextBuild == BuildStep \/ CallAgain

SpecBuild == InitBuild /\ [][NextBuild]_vars

FairBuild == SpecBuild /\ WF_vars(BuildStep)

\* ------------------------------------------------- claims: definitions
CeilHalf(n) == (n + 1) \div 2

RECURSIVE Pow2(_)
Pow2(k) == IF k = 0 THEN 1 ELSE 2 * Pow2(k - 1)

\* the smallest k >= 0 with 2^k >= n
CeilLog2(n) ==
    CHOOSE k \in 0..n : Pow2(k) >= n /\ \A j \in 0..(k - 1) : Pow2(j) < n

Root(t) == Last(t)[1]

\* M is L with the leaves at two positions holding different digests swapped
IsSwap(L, M) ==
    /\ Len(L) = Len(M)
    /\ \E p, q \in 1..Len(L) :
          /\ p # q
          /\ L[p] # L[q]
          /\ M = [L EXCEPT ![p] = L[q], ![q] = L[p]]

\* The tokens of a line, stated by positions: a piece lies between two
\* neighbouring boundaries (line start, commas, line end).
Boundaries(s) == {0} \cup {k \in 1..Len(s) : s[k] = ","} \cup {Len(s) + 1}

NextBoundary(s, b) == CHOOSE n \in Boundaries(s) :
    n > b /\ \A m \in Boundaries(s) : m > b => n <= m

Inked(s, b) == {p \in (b + 1)..(NextBoundary(s, b) - 1) : s[p] # " "}

TokenStarts(s) == {b \in Boundaries(s) \ {Len(s) + 1} : Inked(s, b) # {}}

Token(s, b) ==
    LET lo == CHOOSE p \in Inked(s, b) : \A q \in Inked(s, b) : p <= q
        hi == CHOOSE p \in Inked(s, b) : \A q \in Inked(s, b) : q <= p
    IN  SubSeq(s, lo, hi)

Rank(s, b) == Cardinality({c \in TokenStarts(s) : c <= b})

\* where cell k of a printed layer starts, after the indentation
RECURSIVE Offset(_, _)
Offset(l, k) ==
    IF k = 1 THEN 0
    ELSE Offset(l, k - 1) + Min(Len(l[k - 1]), PrefixLen) + Len(Separator)

AllSpaces(s) == \A p \in 1..Len(s) : s[p] = " "

\* line is layer l printed at depth d
IsLayerLine(line, d, l) ==
    LET ind == Len(IndentUnit) * d
        rest == SubSeq(line, ind + 1, Len(line))
        n == Len(l)
    IN  /\ Len(line) >= ind
        /\ AllSpaces(SubSeq(line, 1, ind))
        /\ n >= 1 => Len(rest) = Offset(l, n) + Min(Len(l[n]), PrefixLen)
        /\ n = 0 => rest = <<>>
        /\ \A k \in 1..n :
              LET w == Min(Len(l[k]), PrefixLen)
                  o == Offset(l, k)
              IN  /\ SubSeq(rest, o + 1, o + w) = SubSeq(l[k], 1, w)
                  /\ k < n => SubSeq(rest, o + w + 1, o + w + Len(Separator))
                                  = Separator

\* where main printed the heading of the tree
HeaderAt == {h \in 1..Len(out) : out[h] = TreeHeader}

\* ------------------------------------------------------------- claims

\* C1: for every non-empty leaf sequence build_merkle_tree terminates (every
\* call returns) and the last layer of the returned tree has exactly one
\* digest.
C1_TerminatesWithRoot ==
    /\ [](pc = "returned" /\ leaves # <<>>
            => Len(tree) >= 1 /\ Len(Last(tree)) = 1)
    /\ (pc = "call_build" ~> pc = "returned")

C1_Witness ==
    pc = "returned" /\ Len(leaves) >= 3 /\ Len(tree) > 1 /\ Len(Last(tree)) = 1

\* C2: a line that is non-empty after trimming but holds no non-empty token
\* makes main report "no data" and end normally, with no error and no tree
\* built or printed.
C2_NoDataOnEmptyTokens ==
    (pc \in {"done", "error"} /\ data # <<>> /\ TokenStarts(data) = {})
        => /\ pc = "done"
           /\ exc = "none"
           /\ out = <<Banner, Instructions, InputPrompt, NoDataMsg>>
           /\ tree = <<>>

\* C3: in the returned tree layer 0 is the leaf sequence at its original
\* length, and every stored layer with more than one element is followed by
\* a layer of exactly ceil(length / 2) elements.
C3_LayerLengths ==
    pc = "returned" =>
        /\ Len(tree[1]) = Len(leaves)
        /\ \A k \in 1..(Len(tree) - 1) :
              Len(tree[k]) > 1 => Len(tree[k + 1]) = CeilHalf(Len(tree[k]))

C3_Witness ==
    pc = "returned" /\ Len(leaves) = 5 /\ Len(tree) = 4 /\ Len(tree[2]) = 3

\* C4: in the returned tree every element of layer k+1 is the combination of
\* the pair below it, left then right; the unpaired last element of an odd
\* layer is combined with itself and never promoted unchanged.  Leaves
\* [a, b, c] give [combine(a,b), combine(c,c)] and the root over those two.
C4_PairwiseCombine ==
    pc = "returned" =>
        /\ \A k \in 1..(Len(tree) - 1) :
              Len(tree[k]) > 1 =>
                 \A j \in 1..Len(tree[k + 1]) :
                    IF 2 * j <= Len(tree[k])
                    THEN tree[k + 1][j]
                            = hash_pair(tree[k][2 * j - 1], tree[k][2 * j])
                    ELSE /\ tree[k + 1][j]
                               = hash_pair(Last(tree[k]), Last(tree[k]))
                         /\ tree[k + 1][j] # Last(tree[k])
        /\ Len(leaves) = 3 =>
              /\ tree[2] = <<hash_pair(leaves[1], leaves[2]),
                             hash_pair(leaves[3], leaves[3])>>
              /\ Last(tree) =
                    <<hash_pair(hash_pair(leaves[1], leaves[2]),
                                hash_pair(leaves[3], leaves[3]))>>

C4_Witness ==
    /\ pc = "returned"
    /\ Len(leaves) = 3
    /\ leaves[1] # leaves[2]
    /\ Len(tree) = 3
    /\ tree[2][2] = hash_pair(leaves[3], leaves[3])

\* C5: n >= 1 leaves give exactly k+1 layers, k the smallest k >= 0 with
\* 2^k >= n; one leaf gives one layer and is the root itself, two leaves give
\* 2 layers with root combine(x, y), four leaves give 3 layers.
C5_LayerCount ==
    (pc = "returned" /\ Len(leaves) >= 1) =>
        /\ Len(tree) = CeilLog2(Len(leaves)) + 1
        /\ Len(leaves) = 1 => tree = <<leaves>> /\ Root(tree) = leaves[1]
        /\ Len(leaves) = 2 =>
              Len(tree) = 2 /\ Root(tree) = hash_pair(leaves[1], leaves[2])
        /\ Len(leaves) = 4 => Len(tree) = 3

C5_Witness ==
    pc = "returned" /\ Len(leaves) = 4 /\ Len(tree) = 3

\* C6: swapping the leaves at two positions that hold different digests
\* gives a different root (the hash being collision-free).
C6_OrderSensitive ==
    (pc = "returned" /\ prevLeaves # <<>> /\ IsSwap(prevLeaves, leaves))
        => Root(tree) # Root(prevTree)

C6_Witness ==
    /\ pc = "returned"
    /\ Len(leaves) >= 4
    /\ IsSwap(prevLeaves, leaves)
    /\ Root(tree) # Root(prevTree)

\* C7: a second call on the same leaf sequence returns the same layers and
\* the same root as the call before it; nothing of the earlier call is kept.
C7_Deterministic ==
    (pc = "returned" /\ prevLeaves = leaves) => tree = prevTree

C7_Witness ==
    pc = "returned" /\ prevLeaves = leaves /\ Len(leaves) >= 3
        /\ tree = prevTree

\* C8: main passes one leaf per comma-separated token that is non-empty
\* after trimming, in input order, leaf j being the hash of the j-th trimmed
\* token alone; layer 0 of the built tree is that sequence.
C8_LeafDerivation ==
    pc \in {"call_build", "while", "odd", "for", "append", "returned",
            "print", "root", "done", "error"} /\ data # <<>>
        => /\ Len(leaves) = Cardinality(TokenStarts(data))
           /\ \A b \in TokenStarts(data) :
                 leaves[Rank(data, b)] = sha256(Token(data, b))
           /\ pc # "call_build" => tree[1] = leaves

C8_Witness ==
    /\ pc = "done"
    /\ data = <<"a", ",", "a", "a", ",", " ", "a">>
    /\ leaves = <<sha256(<<"a">>), sha256(<<"a", "a">>), sha256(<<"a">>)>>
    /\ tree[1] = leaves

\* C9: print_merkle_tree writes one line per layer, root layer first, the
\* line at depth d indented by d units and showing the layer's digests in
\* order, each cut to its first 8 characters; the tree is left unchanged.
C9_PrintLayers ==
    /\ [](pc \in {"root", "done", "error"} /\ tree # <<>> =>
            /\ Cardinality(HeaderAt) = 1
            /\ \A h \in HeaderAt :
                  /\ Len(out) >= h + Len(tree)
                  /\ pc = "root" => Len(out) = h + Len(tree)
                  /\ \A d \in 0..(Len(tree) - 1) :
                        IsLayerLine(out[h + 1 + d], d, tree[Len(tree) - d]))
    /\ [][(pc \in {"returned", "print", "root"}) => (tree' = tree)]_vars

C9_Witness ==
    /\ pc = "root"
    /\ Len(tree) = 3
    /\ Len(tree[1]) = 3
    /\ Len(out) = 8
    /\ out[5] = TreeHeader
    /\ Len(out[6]) = PrefixLen
    /\ Len(out[8]) > 2 * Len(IndentUnit)

\* C10: for a leaf sequence of odd length n > 1, appending its last leaf once
\* more gives a different leaf sequence with the same root and the same
\* layers from index 1 upward.
C10_DuplicateLastCollision ==
    (/\ pc = "returned"
     /\ Len(prevLeaves) > 1
     /\ Len(prevLeaves) % 2 = 1
     /\ leaves = Append(prevLeaves, Last(prevLeaves)))
        => /\ leaves # prevLeaves
           /\ Root(tree) = Root(prevTree)
           /\ Len(tree) = Len(prevTree)
           /\ \A k \in 2..Len(tree) : tree[k] = prevTree[k]

C10_Witness ==
    /\ pc = "returned"
    /\ Len(prevLeaves) = 3
    /\ prevLeaves[1] # prevLeaves[3]
    /\ leaves = Append(prevLeaves, Last(prevLeaves))
    /\ Root(tree) = Root(prevTree)

====
